---- MODULE Spec2Model ----
(***************************************************************************)
(* Model of custom_components/ultimaker/sensor.py: the throttled polling    *)
(* data source UltimakerStatusData and the metric holders                   *)
(* UltimakerStatusSensor that read its snapshot.                            *)
(*                                                                          *)
(* Python values are tagged records: None, StrV(s), IntV(n), FloatV(n).     *)
(* Numbers are held in thousandths (0.37 is 370, 23.456 is 23456), so that  *)
(* the scaling by 100 and the division by 1000 of the source are exact.     *)
(* A dict is a function from its keys; a list is a sequence.                *)
(***************************************************************************)
EXTENDS Integers, Sequences, FiniteSets, TLC

VARIABLES
    now,           \* the clock, in seconds
    world,         \* the JSON bodies the printer serves at its three endpoints
    throttle,      \* Throttle's per-object record: called yet, time of last call
    data,          \* UltimakerStatusData._data
    pc,            \* per caller: the await at which its coroutine is suspended
    locals,        \* per caller: printer_data / print_job_data of its cycle
    reqStart,      \* per caller: when its pending session.get was issued
    type,          \* per holder: UltimakerStatusSensor._type
    state,         \* per holder: UltimakerStatusSensor._state
    last_updated,  \* per holder: UltimakerStatusSensor._last_updated
    raised,        \* per holder: the exception its last update hook let escape
    decimal,       \* UltimakerStatusSensor._decimal, the configured precision
    shown,         \* history, per holder: what the state property returned
                   \* when it was last read since the holder's last hook
    origin         \* history: what the cycle that assigned data had fetched,
                   \* when it assigned it and when it had started

vars == <<now, world, throttle, data, pc, locals, reqStart, type, state,
          last_updated, raised, decimal, shown, origin>>

----------------------------------------------------------------------------
(* Program constants and model bounds *)

MIN_TIME_BETWEEN_UPDATES == 10

REQUEST_TIMEOUT == 5

MaxTicks == 6

MaxTicksOne == 3

\* vol.Optional(CONF_DECIMAL, default=2)
DEFAULT_DECIMAL == 2

MaxDecimal == 2

----------------------------------------------------------------------------
(* Python values *)

None == [k |-> "None"]

StrV(s) == [k |-> "str", v |-> s]

IntV(n) == [k |-> "int", v |-> n]

FloatV(n) == [k |-> "float", v |-> n]

EmptyDict == <<>>

IsValue(x) == "k" \in DOMAIN x

IsDict(x) == ~IsValue(x)

\* bool(x) for a tagged value or a dict
Truthy(x) ==
    IF IsValue(x)
    THEN CASE x.k = "None" -> FALSE
           [] x.k = "str" -> x.v # ""
           [] OTHER -> x.v # 0
    ELSE DOMAIN x # {}

\* key in d
Has(d, key) == key \in DOMAIN d

\* d.get(key, default)
Get(d, key, default) == IF key \in DOMAIN d THEN d[key] ELSE default

\* the dict a is after a.update(b)
Update(a, b) ==
    [key \in DOMAIN a \cup DOMAIN b |-> IF key \in DOMAIN b THEN b[key] ELSE a[key]]

\* the dict d is after d[key] = value
SetItem(d, key, value) ==
    [x \in DOMAIN d \cup {key} |-> IF x = key THEN value ELSE d[x]]

----------------------------------------------------------------------------
(* The sensor kinds and the material catalog *)

SENSOR_TYPES ==
    { "status", "state", "progress",
      "bed_temperature", "bed_temperature_target", "bed_type",
      "hotend_1_temperature", "hotend_1_temperature_target", "hotend_1_id",
      "hotend_2_temperature", "hotend_2_temperature_target", "hotend_2_id",
      "active_material_1_guid", "active_material_2_guid",
      "active_material_1_length_remaining",
      "active_material_2_length_remaining" }

\* word in t, the substring test of the source, for the words it tests
Contains(t, word) ==
    CASE word = "bed" ->
           t \in {"bed_temperature", "bed_temperature_target", "bed_type"}
      [] word = "temperature" ->
           t \in {"bed_temperature", "bed_temperature_target",
                  "hotend_1_temperature", "hotend_1_temperature_target",
                  "hotend_2_temperature", "hotend_2_temperature_target"}
      [] word = "target" ->
           t \in {"bed_temperature_target", "hotend_1_temperature_target",
                  "hotend_2_temperature_target"}
      [] word = "type" -> t = "bed_type"
      [] word = "hotend" ->
           t \in {"hotend_1_temperature", "hotend_1_temperature_target",
                  "hotend_1_id", "hotend_2_temperature",
                  "hotend_2_temperature_target", "hotend_2_id"}
      [] word = "id" ->
           t \in {"hotend_1_id", "hotend_2_id",
                  "active_material_1_guid", "active_material_2_guid"}
      [] word = "active_material" ->
           t \in {"active_material_1_guid", "active_material_2_guid",
                  "active_material_1_length_remaining",
                  "active_material_2_length_remaining"}
      [] word = "guid" ->
           t \in {"active_material_1_guid", "active_material_2_guid"}
      [] word = "length_remaining" ->
           t \in {"active_material_1_length_remaining",
                  "active_material_2_length_remaining"}
      [] OTHER -> FALSE

\* int(t.split("_")[1]) for a hotend kind, int(t.split("_")[2]) for an
\* active_material kind: the extruder slot N named in the kind
SlotOf(t) ==
    IF t \in {"hotend_1_temperature", "hotend_1_temperature_target",
              "hotend_1_id", "active_material_1_guid",
              "active_material_1_length_remaining"}
    THEN 1 ELSE 2

\* Entries of MATERIAL_LIST (guid, material, color), in list order
MATERIAL_LIST ==
    << [guid |-> "7cbdb9ca-081a-456f-a6ba-f73e4e9cb856",
        material |-> "ABS", color |-> "Pearl Gold"],
       [guid |-> "506c9f0d-e3aa-4bd4-b2d2-23e2425b1aa9",
        material |-> "PLA", color |-> "Generic"],
       [guid |-> "6660eb2e-aa40-49ad-ac9b-ada979f3de9b",
        material |-> "Tough PLA", color |-> "Gray"] >>

\* s.replace("_", " ") for the job states the printer reports
ReplaceUnderscore(s) ==
    CASE s = "pre_print" -> "pre print"
      [] s = "post_print" -> "post print"
      [] s = "wait_cleanup" -> "wait cleanup"
      [] s = "wait_user_action" -> "wait user action"
      [] OTHER -> s

----------------------------------------------------------------------------
(* UltimakerStatusSensor.async_update, from "data = latest_data" on.        *)
(* A result is the holder's _state after the branch and the exception that  *)
(* escaped it ("none" when the branch ran to its end).                      *)

Done(value) == [state |-> value, err |-> "none"]

Raise(old, e) == [state |-> old, err |-> e]

\* next(d for d in MATERIAL_LIST if d["guid"] == guid): the first match.
\* Without a match next() raises StopIteration, which leaves the coroutine
\* async_update as a RuntimeError.
Translate(old, guid) ==
    LET hits == {i \in DOMAIN MATERIAL_LIST : StrV(MATERIAL_LIST[i].guid) = guid}
    IN  IF hits = {}
        THEN Raise(old, "RuntimeError")
        ELSE LET first == CHOOSE i \in hits : \A j \in hits : i <= j
             IN  Done(StrV(MATERIAL_LIST[first].material \o " - "
                           \o MATERIAL_LIST[first].color))

ExtractStatus(d) == Done(Get(d, "status", StrV("not connected")))

ExtractState(d) ==
    LET s == Get(d, "state", None)
    IN  Done(IF Truthy(s) THEN StrV(ReplaceUnderscore(s.v)) ELSE s)

ExtractProgress(d) ==
    LET s == Get(d, "progress", IntV(0))
    IN  Done(IF Truthy(s) THEN [s EXCEPT !.v = @ * 100] ELSE s)

ExtractBed(t, d, old) ==
    LET bed == Get(d, "bed", None)
        s1  == IF Contains(t, "temperature") /\ Truthy(bed)
               THEN LET temperature == Get(bed, "temperature", None)
                    IN  IF Truthy(temperature)
                        THEN IF Contains(t, "target")
                             THEN Get(temperature, "target", None)
                             ELSE Get(temperature, "current", None)
                        ELSE old
               ELSE old
    IN  Done(IF Contains(t, "type") /\ Truthy(bed)
             THEN Get(bed, "type", None)
             ELSE s1)

\* the part of the hotend branch that follows hot_end = extruder["hotend"]
HotendFields(t, hot_end, old) ==
    LET r1 == IF Contains(t, "temperature") /\ Truthy(hot_end)
              THEN IF ~Has(hot_end, "temperature")
                   THEN Raise(old, "KeyError")
                   ELSE IF Contains(t, "target")
                        THEN Done(Get(hot_end.temperature, "target", None))
                        ELSE Done(Get(hot_end.temperature, "current", None))
              ELSE Done(old)
    IN  IF r1.err # "none" THEN r1
        ELSE IF Contains(t, "id") /\ Truthy(hot_end)
             THEN IF ~Has(hot_end, "id")
                  THEN Raise(r1.state, "KeyError")
                  ELSE Done(hot_end.id)
             ELSE r1

\* the part of the active_material branch that follows
\* active_material = extruder["active_material"]
MaterialFields(t, active_material, old) ==
    LET r1 == IF Contains(t, "guid") /\ Truthy(active_material)
              THEN IF ~Has(active_material, "guid")
                   THEN Raise(old, "KeyError")
                   ELSE Translate(old, active_material.guid)
              ELSE Done(old)
    IN  IF r1.err # "none" THEN r1
        ELSE IF Contains(t, "length_remaining") /\ Truthy(active_material)
             THEN IF ~Has(active_material, "length_remaining")
                  THEN Raise(r1.state, "KeyError")
                  ELSE Done(FloatV(active_material.length_remaining.v \div 1000))
             ELSE r1

\* head = data.get("heads", [None])[0], then head["extruders"][idx][part]
ExtractExtruder(t, d, old, part) ==
    LET heads == Get(d, "heads", <<None>>)
    IN  IF Len(heads) = 0 THEN Raise(old, "IndexError")
        ELSE LET head == heads[1]
             IN  IF ~Truthy(head) THEN Done(old)
                 ELSE IF ~Has(head, "extruders") THEN Raise(old, "KeyError")
                 ELSE IF Len(head.extruders) < SlotOf(t)
                      THEN Raise(old, "IndexError")
                 ELSE LET extruder == head.extruders[SlotOf(t)]
                      IN  IF ~Has(extruder, part) THEN Raise(old, "KeyError")
                          ELSE IF part = "hotend"
                               THEN HotendFields(t, extruder[part], old)
                               ELSE MaterialFields(t, extruder[part], old)

\* Mutant of Extract: the progress branch scales the value the holder holds
ExtractCompounds(t, d, old) ==
    IF t = "progress"
    THEN IF IsValue(old) /\ old.k = "float"
         THEN Done([old EXCEPT !.v = @ * 100])
         ELSE ExtractProgress(d)
    ELSE IF t = "status" THEN ExtractStatus(d)
    ELSE IF t = "state" THEN ExtractState(d)
    ELSE IF Contains(t, "bed") THEN ExtractBed(t, d, old)
    ELSE IF Contains(t, "hotend") THEN ExtractExtruder(t, d, old, "hotend")
    ELSE ExtractExtruder(t, d, old, "active_material")

Extract(t, d, old) ==
    IF t = "status" THEN ExtractStatus(d)
    ELSE IF t = "state" THEN ExtractState(d)
    ELSE IF t = "progress" THEN ExtractProgress(d)
    ELSE IF Contains(t, "bed") THEN ExtractBed(t, d, old)
    ELSE IF Contains(t, "hotend") THEN ExtractExtruder(t, d, old, "hotend")
    ELSE IF Contains(t, "active_material")
         THEN ExtractExtruder(t, d, old, "active_material")
    ELSE Done(old)

\* Mutant of AfterRead: progress is scaled in the shared dict
AfterReadScalesInPlace(t, d) ==
    IF t = "progress" /\ Has(d, "progress")
    THEN [d EXCEPT !["progress"] = [@ EXCEPT !.v = @ * 100]]
    ELSE d

\* What the hook leaves in the dict it was handed by latest_data: the
\* branches only read it (get, indexing) and rebind self._state
AfterRead(t, d) == d

----------------------------------------------------------------------------
(* The JSON bodies of the printer's endpoints *)

Temperature(current, target) ==
    [current |-> FloatV(current), target |-> FloatV(target)]

ExtruderPLA ==
    [hotend |-> [temperature |-> Temperature(205300, 210000), id |-> StrV("AA 0.4")],
     active_material |-> [guid |-> StrV("506c9f0d-e3aa-4bd4-b2d2-23e2425b1aa9"),
                          length_remaining |-> FloatV(4500000)]]

ExtruderUnknownMaterial ==
    [hotend |-> [temperature |-> Temperature(23456, 0), id |-> StrV("BB 0.4")],
     active_material |-> [guid |-> StrV("00000000-0000-0000-0000-000000000000"),
                          length_remaining |-> FloatV(1250000)]]

ExtruderEmptySlot == [feeder |-> [acceleration |-> FloatV(3000000)]]

PrinterBodies ==
    { [status |-> StrV("printing"), name |-> StrV("printer"),
       bed |-> [temperature |-> Temperature(60500, 60000), type |-> StrV("glass")],
       heads |-> << [extruders |-> <<ExtruderPLA, ExtruderUnknownMaterial>>] >>],
      [status |-> StrV("idle"),
       bed |-> [type |-> StrV("aluminum")],
       heads |-> << [extruders |-> <<ExtruderPLA>>] >>],
      [status |-> StrV("idle"),
       heads |-> << [extruders |-> <<ExtruderEmptySlot, ExtruderPLA>>] >>],
      [status |-> StrV("maintenance"),
       heads |-> << [acceleration |-> FloatV(3000000)] >>],
      [status |-> StrV("booting"), heads |-> << >>],
      [status |-> StrV("error")] }

PrintJobBodies ==
    { [state |-> StrV("pre_print"), progress |-> FloatV(370),
       name |-> StrV("benchy")] }

SystemBodies ==
    { [name |-> StrV("ultimaker-s5"), firmware |-> StrV("5.2.11")] }

Worlds == [printer : PrinterBodies, print_job : PrintJobBodies, system : SystemBodies]

----------------------------------------------------------------------------
(* UltimakerStatusSensor.state *)

\* No read of the state property since the holder's last hook
Unread == [k |-> "unread"]

RECURSIVE Pow10(_)
Pow10(n) == IF n = 0 THEN 1 ELSE 10 * Pow10(n - 1)

\* round(x, ndigits) of a float held in thousandths: the nearest multiple of
\* 10^-ndigits. The ties among the values of this model (60.5, 4.5, 1.25)
\* are exact binary fractions, which round() rounds half to even.
Round(v, ndigits) ==
    IF ndigits >= 3 THEN v
    ELSE LET q  == Pow10(3 - ndigits)
             lo == (v \div q) * q
             r  == v - lo
         IN  IF 2 * r < q THEN lo
             ELSE IF 2 * r > q THEN lo + q
             ELSE IF (lo \div q) % 2 = 0 THEN lo ELSE lo + q

\* The state property: a float is rounded for the caller, anything else is
\* returned as it is
StateProperty(s, ndigits) ==
    IF s.k = "float" THEN FloatV(Round(s.v, ndigits)) ELSE s

\* Mutant of StoredAfterRead: the rounded value is stored back
StoredAfterReadRounds(s, ndigits) == StateProperty(s, ndigits)

\* self._state after the state property ran: the property assigns nothing
StoredAfterRead(s, ndigits) == s

----------------------------------------------------------------------------
(* UltimakerStatusData *)

Setup == 0

Holders == {1, 2}

Callers == {Setup} \cup Holders

Endpoints == <<"printer", "print_job", "system">>

TimeV(t) == [k |-> "datetime", v |-> t]

\* The locals of a cycle, and (history) the time at which the cycle started
NoLocals == [printer_data |-> EmptyDict, print_job_data |-> EmptyDict,
             started |-> 0]

At(op, ep) == [op |-> op, ep |-> ep]

\* Mutant of Merged: the print job body is merged last
MergedJobLast(printer_data, print_job_data, system_data, t) ==
    SetItem(Update(Update(printer_data, system_data), print_job_data),
            "sampleTime", TimeV(t))

\* lines 796-798 and 801: copy, update, update, stamp
Merged(printer_data, print_job_data, system_data, t) ==
    SetItem(Update(Update(printer_data, print_job_data), system_data),
            "sampleTime", TimeV(t))

\* Mutant of Fallback: the status is written into the snapshot at hand
FallbackKeepsSnapshot(t) ==
    SetItem(SetItem(IF IsDict(data) THEN data ELSE EmptyDict,
                    "status", StrV("not connected")),
            "sampleTime", TimeV(t))

\* lines 800-801: the placeholder of a cycle that met a ClientError
Fallback(t) ==
    SetItem([status |-> StrV("not connected")], "sampleTime", TimeV(t))

\* Mutant of ThrottlePasses: the interval compared is the request timeout
ThrottleComparesTimeout ==
    \/ ~throttle.called
    \/ now - throttle.last >= REQUEST_TIMEOUT

\* Mutant of ThrottlePasses: only the first call ever goes through
ThrottleOnlyOnce == ~throttle.called

\* Throttle.wrapper: the call goes through when the method was never called
\* or more than min_time has passed since it was last called
ThrottlePasses ==
    \/ ~throttle.called
    \/ now - throttle.last > MIN_TIME_BETWEEN_UPDATES

\* Throttle.wrapper stamps the call when it creates the coroutine; the
\* coroutine then runs up to its first await, fetch_data(self._url_printer)
StartCycle(c) ==
    /\ throttle' = [called |-> TRUE, last |-> now]
    /\ pc' = [pc EXCEPT ![c] = At("get", 1)]
    /\ reqStart' = [reqStart EXCEPT ![c] = now]
    /\ locals' = [locals EXCEPT ![c] = [NoLocals EXCEPT !.started = now]]

\* UltimakerStatusSensor.async_update after "await self._data.async_update()"
RunExtraction(h, d) ==
    IF Truthy(d)
    THEN LET r == Extract(type[h], d, state[h])
         IN  /\ last_updated' = [last_updated EXCEPT ![h] = Get(d, "sampleTime", None)]
             /\ state' = [state EXCEPT ![h] = r.state]
             /\ raised' = [raised EXCEPT ![h] = r.err]
             /\ shown' = [shown EXCEPT ![h] = Unread]
             /\ data' = AfterRead(type[h], d)
    ELSE /\ raised' = [raised EXCEPT ![h] = "none"]
         /\ shown' = [shown EXCEPT ![h] = Unread]
         /\ data' = d
         /\ UNCHANGED <<state, last_updated>>

\* The caller's coroutine goes on once data.async_update() has returned
Resume(c, d) ==
    IF c = Setup
    THEN /\ pc' = [pc EXCEPT ![c] = At("done", 0)]
         /\ data' = d
         /\ UNCHANGED <<state, last_updated, raised, shown>>
    ELSE /\ pc' = [pc EXCEPT ![c] = At("idle", 0)]
         /\ RunExtraction(c, d)

\* fetch_data returns body to async_update, which awaits the next endpoint
\* or, after the third, assigns self._data
Contribute(c, body) ==
    /\ pc[c].ep \in 1..3
    /\ IF pc[c].ep = 1
       THEN /\ locals' = [locals EXCEPT ![c].printer_data = body]
            /\ pc' = [pc EXCEPT ![c] = At("get", 2)]
            /\ reqStart' = [reqStart EXCEPT ![c] = now]
            /\ UNCHANGED <<data, origin, state, last_updated, raised, shown>>
       ELSE IF pc[c].ep = 2
       THEN /\ locals' = [locals EXCEPT ![c].print_job_data = body]
            /\ pc' = [pc EXCEPT ![c] = At("get", 3)]
            /\ reqStart' = [reqStart EXCEPT ![c] = now]
            /\ UNCHANGED <<data, origin, state, last_updated, raised, shown>>
       ELSE /\ locals' = [locals EXCEPT ![c] = NoLocals]
            /\ reqStart' = [reqStart EXCEPT ![c] = 0]
            /\ origin' = [ok |-> TRUE, at |-> now,
                          started |-> locals[c].started,
                          printer |-> locals[c].printer_data,
                          print_job |-> locals[c].print_job_data,
                          system |-> body]
            /\ Resume(c, Merged(locals[c].printer_data,
                                locals[c].print_job_data, body, now))
    /\ UNCHANGED <<now, world, decimal, throttle, type>>

\* async_setup_platform: data = UltimakerStatusData(...); await data.async_update()
SetupStart ==
    /\ pc[Setup].op = "start"
    /\ IF ThrottlePasses
       THEN StartCycle(Setup)
       ELSE /\ pc' = [pc EXCEPT ![Setup] = At("done", 0)]
            /\ UNCHANGED <<throttle, reqStart, locals>>
    /\ UNCHANGED <<now, world, decimal, data, type, state, last_updated, raised, shown, origin>>

\* The host calls the update hook of holder h, which calls the throttled
\* data.async_update(): a new cycle, or the stand-in coroutine that returns
\* at once, after which the hook reads latest_data without suspending
HolderUpdate(h) ==
    /\ pc[Setup].op = "done"
    /\ pc[h].op = "idle"
    /\ type[h] \in SENSOR_TYPES
    /\ IF ThrottlePasses
       THEN /\ StartCycle(h)
            /\ UNCHANGED <<data, state, last_updated, raised, shown>>
       ELSE /\ RunExtraction(h, data)
            /\ UNCHANGED <<throttle, pc, reqStart, locals>>
    /\ UNCHANGED <<now, world, decimal, type, origin>>

\* session.get(url) returns a response within the timeout
GetResponds(c) ==
    /\ pc[c].op = "get"
    /\ now - reqStart[c] < REQUEST_TIMEOUT
    /\ pc' = [pc EXCEPT ![c].op = "json"]
    /\ reqStart' = [reqStart EXCEPT ![c] = 0]
    /\ UNCHANGED <<now, world, decimal, throttle, data, locals, type, state,
                   last_updated, raised, shown, origin>>

\* session.get(url) raises aiohttp.ClientError: fetch_data re-raises it and
\* async_update assigns the placeholder
GetClientError(c) ==
    /\ pc[c].op = "get"
    /\ locals' = [locals EXCEPT ![c] = NoLocals]
    /\ reqStart' = [reqStart EXCEPT ![c] = 0]
    /\ origin' = [ok |-> FALSE, at |-> now, started |-> locals[c].started]
    /\ Resume(c, Fallback(now))
    /\ UNCHANGED <<now, world, decimal, throttle, type>>

\* Mutant of GetTimeout: the timeout is treated like a lost connection
GetTimeoutRaises(c) ==
    /\ pc[c].op = "get"
    /\ now - reqStart[c] >= REQUEST_TIMEOUT
    /\ locals' = [locals EXCEPT ![c] = NoLocals]
    /\ reqStart' = [reqStart EXCEPT ![c] = 0]
    /\ origin' = [ok |-> FALSE, at |-> now, started |-> locals[c].started]
    /\ Resume(c, Fallback(now))
    /\ UNCHANGED <<now, world, decimal, throttle, type>>

\* async_timeout.timeout(5) expires: asyncio.TimeoutError is logged, the
\* handler does not return, and response.json() on the unbound response
\* raises inside the second try, which returns {}
GetTimeout(c) ==
    /\ pc[c].op = "get"
    /\ now - reqStart[c] >= REQUEST_TIMEOUT
    /\ Contribute(c, EmptyDict)

\* session.get(url) raises another exception: fetch_data returns {}
GetUnknownError(c) ==
    /\ pc[c].op = "get"
    /\ Contribute(c, EmptyDict)

\* response.json() returns the body
JsonParsed(c) ==
    /\ pc[c].op = "json"
    /\ Contribute(c, world[Endpoints[pc[c].ep]])

\* response.json() raises: fetch_data returns {}
JsonFails(c) ==
    /\ pc[c].op = "json"
    /\ Contribute(c, EmptyDict)

\* Time passes. The clock is observed once per request timeout, so that a
\* pending request is answered in the period it was issued in or times out
\* at the end of it; a pending request does not outlive its timeout.
Tick(limit) ==
    /\ now < limit * REQUEST_TIMEOUT
    /\ \A c \in Callers : pc[c].op = "get" => now - reqStart[c] < REQUEST_TIMEOUT
    /\ now' = now + REQUEST_TIMEOUT
    /\ UNCHANGED <<world, decimal, throttle, data, pc, locals, reqStart, type, state,
                   last_updated, raised, shown, origin>>

\* The host reads the state property of holder h
ReadState(h) ==
    /\ pc[Setup].op = "done"
    /\ type[h] \in SENSOR_TYPES
    /\ shown' = [shown EXCEPT ![h] = StateProperty(state[h], decimal)]
    /\ state' = [state EXCEPT ![h] = StoredAfterRead(state[h], decimal)]
    /\ UNCHANGED <<now, world, decimal, throttle, data, pc, locals, reqStart,
                   type, last_updated, raised, origin>>

----------------------------------------------------------------------------
(* Specifications *)

InitCommon ==
    /\ now = 0
    /\ throttle = [called |-> FALSE, last |-> 0]
    /\ data = None
    /\ pc = [c \in Callers |-> IF c = Setup THEN At("start", 0) ELSE At("idle", 0)]
    /\ locals = [c \in Callers |-> NoLocals]
    /\ reqStart = [c \in Callers |-> 0]
    /\ state = [h \in Holders |-> None]
    /\ last_updated = [h \in Holders |-> None]
    /\ raised = [h \in Holders |-> "none"]
    /\ shown = [h \in Holders |-> Unread]
    /\ origin = [ok |-> FALSE, at |-> 0, started |-> 0]

\* Two configured sensors polling one printer whose three bodies share a key
Init ==
    /\ InitCommon
    /\ decimal = DEFAULT_DECIMAL
    /\ world \in {w \in Worlds : Has(w.printer, "name")}
    /\ type \in {t \in [Holders -> {"status", "state", "progress"}] :
                    t[1] = "status" /\ t[2] # "status"}

\* One configured sensor of any kind, and a printer in any condition
InitOne ==
    /\ InitCommon
    /\ decimal = DEFAULT_DECIMAL
    /\ world \in Worlds
    /\ type \in {t \in [Holders -> SENSOR_TYPES \cup {"unconfigured"}] :
                    t[1] # "unconfigured" /\ t[2] = "unconfigured"}

Next ==
    \/ SetupStart
    \/ \E h \in Holders : HolderUpdate(h)
    \/ \E c \in Callers : GetResponds(c)
    \/ \E c \in Callers : GetClientError(c)
    \/ \E c \in Callers : GetTimeout(c)
    \/ \E c \in Callers : GetUnknownError(c)
    \/ \E c \in Callers : JsonParsed(c)
    \/ \E c \in Callers : JsonFails(c)
    \/ Tick(MaxTicks)

NextOne ==
    \/ SetupStart
    \/ \E h \in Holders : HolderUpdate(h)
    \/ \E c \in Callers : GetResponds(c)
    \/ \E c \in Callers : GetClientError(c)
    \/ \E c \in Callers : GetTimeout(c)
    \/ \E c \in Callers : GetUnknownError(c)
    \/ \E c \in Callers : JsonParsed(c)
    \/ \E c \in Callers : JsonFails(c)
    \/ Tick(MaxTicksOne)

\* One configured sensor of any kind and of any configured precision, read
\* by the host, and a printer that serves every field when it answers
InitRead ==
    /\ InitCommon
    /\ decimal \in 0..MaxDecimal
    /\ world \in {w \in Worlds : Has(w.printer, "name")}
    /\ type \in {t \in [Holders -> SENSOR_TYPES \cup {"unconfigured"}] :
                    t[1] # "unconfigured" /\ t[2] = "unconfigured"}

NextRead ==
    \/ SetupStart
    \/ \E h \in Holders : HolderUpdate(h)
    \/ \E h \in Holders : ReadState(h)
    \/ \E c \in Callers : GetResponds(c)
    \/ \E c \in Callers : GetClientError(c)
    \/ \E c \in Callers : GetTimeout(c)
    \/ \E c \in Callers : GetUnknownError(c)
    \/ \E c \in Callers : JsonParsed(c)
    \/ \E c \in Callers : JsonFails(c)
    \/ Tick(MaxTicksOne)

Spec == Init /\ [][Next]_vars

SpecRead == InitRead /\ [][NextRead]_vars

SpecOne == InitOne /\ [][NextOne]_vars

----------------------------------------------------------------------------
(* Checked properties *)

InFlight(c) == pc[c].op \in {"get", "json"}

\* C1: a refresh invoked less than the minimum interval after the previous
\* refresh attempt issues no HTTP request and leaves latest_data the very
\* same snapshot, capture timestamp included.
C1_ThrottledRefreshKeepsSnapshot ==
    [][\A h \in Holders :
         (/\ HolderUpdate(h)
          /\ throttle.called
          /\ now - throttle.last < MIN_TIME_BETWEEN_UPDATES)
         => (data' = data /\ pc' = pc /\ reqStart' = reqStart
             /\ throttle' = throttle)]_vars

\* A holder's hook has run inside the interval that the setup's refresh
\* opened: its refresh was throttled and it read the setup's snapshot.
C1_Witness ==
    \E h \in Holders :
        /\ throttle = [called |-> TRUE, last |-> 0]
        /\ now < MIN_TIME_BETWEEN_UPDATES
        /\ IsDict(data)
        /\ last_updated[h] = data.sampleTime
        /\ \A c \in Callers : ~InFlight(c)

\* C2: at most one refresh cycle is in flight at any moment, however long
\* the cycle takes and whichever holders trigger refreshes.
C2_OneCycleInFlight ==
    Cardinality({c \in Callers : InFlight(c)}) <= 1

\* C3: a cycle that met a connection failure publishes exactly
\* {status: "not connected"} plus its capture timestamp, and a hook of any
\* kind that reads that snapshot raises nothing, the status kind reading
\* "not connected".
C3_FallbackSnapshot ==
    (IsDict(data) /\ ~origin.ok) =>
        /\ data = [status |-> StrV("not connected"), sampleTime |-> TimeV(origin.at)]
        /\ \A h \in Holders :
               last_updated[h] = data.sampleTime =>
                   /\ raised[h] = "none"
                   /\ type[h] = "status" => state[h] = StrV("not connected")

\* A material holder has read the placeholder published on top of a
\* snapshot that had been merged from the printer's bodies.
C3_Witness ==
    /\ IsDict(data) /\ ~origin.ok
    /\ origin.at > 0
    /\ type[1] = "active_material_2_guid"
    /\ last_updated[1] = data.sampleTime

\* The value Python's copy/update/update leaves for key when system wins
\* over print job and print job over printer
LaterWins(o, key) ==
    IF Has(o.system, key) THEN o.system[key]
    ELSE IF Has(o.print_job, key) THEN o.print_job[key]
    ELSE o.printer[key]

PayloadKeys(o) == DOMAIN o.printer \cup DOMAIN o.print_job \cup DOMAIN o.system

\* C4: a timeout or an unparseable body makes that endpoint's contribution
\* empty; the cycle goes on to the remaining endpoints and publishes the
\* merge of exactly the keys of the endpoints that answered plus the
\* timestamp, never the placeholder.
C4_EmptyContribution ==
    /\ [](origin.ok =>
            /\ DOMAIN data = PayloadKeys(origin) \cup {"sampleTime"}
            /\ \A e \in DOMAIN Endpoints :
                   origin[Endpoints[e]] \in {EmptyDict, world[Endpoints[e]]})
    /\ [][\A c \in Callers :
            (GetTimeout(c) \/ JsonFails(c)) =>
                /\ pc[c].ep = 1 =>
                       /\ locals'[c].printer_data = EmptyDict
                       /\ pc'[c] = At("get", 2)
                       /\ data' = data /\ origin' = origin
                /\ pc[c].ep = 2 =>
                       /\ locals'[c].print_job_data = EmptyDict
                       /\ locals'[c].printer_data = locals[c].printer_data
                       /\ pc'[c] = At("get", 3)
                       /\ data' = data /\ origin' = origin
                /\ pc[c].ep = 3 =>
                       /\ origin'.ok /\ origin'.system = EmptyDict
                       /\ DOMAIN data' = DOMAIN locals[c].printer_data
                                         \cup DOMAIN locals[c].print_job_data
                                         \cup {"sampleTime"}
                       /\ data' # Fallback(now)]_vars

\* A cycle whose printer request brought nothing has published the merge of
\* the two bodies that did arrive.
C4_Witness ==
    /\ origin.ok
    /\ origin.printer = EmptyDict
    /\ origin.print_job = world.print_job
    /\ origin.system = world.system
    /\ ~Has(data, "status") /\ Has(data, "state") /\ Has(data, "firmware")

\* C5 as stated: on a key two or three bodies define, the print job's value
\* wins, else the system's, else the printer's.
C5_PrintJobWins ==
    origin.ok =>
        \A key \in PayloadKeys(origin) :
            data[key] = IF Has(origin.print_job, key) THEN origin.print_job[key]
                        ELSE IF Has(origin.system, key) THEN origin.system[key]
                        ELSE origin.printer[key]

\* C5 amended: on a key two or three bodies define, the system's value wins,
\* else the print job's, else the printer's.
C5_SystemWins ==
    origin.ok => \A key \in PayloadKeys(origin) : data[key] = LaterWins(origin, key)

\* All three endpoints answered and all three bodies define "name".
C5_Witness ==
    /\ origin.ok
    /\ \A e \in DOMAIN Endpoints :
           /\ origin[Endpoints[e]] = world[Endpoints[e]]
           /\ Has(world[Endpoints[e]], "name")
    /\ world.print_job.name # world.system.name
    /\ data.name = world.system.name

\* The hook of holder h has read the snapshot that is current
ReadCurrent(h) == IsDict(data) /\ last_updated[h] = data.sampleTime

ExtruderKinds == {t \in SENSOR_TYPES : Contains(t, "hotend") \/ Contains(t, "active_material")}

PartOf(t) == IF Contains(t, "hotend") THEN "hotend" ELSE "active_material"

\* The traversal heads[0] -> extruders[N-1] -> hotend / active_material of
\* kind t meets a missing step in snapshot d
MissingStep(d, t) ==
    \/ ~Has(d, "heads")
    \/ Len(d.heads) = 0
    \/ ~Has(d.heads[1], "extruders")
    \/ Len(d.heads[1].extruders) < SlotOf(t)
    \/ ~Has(d.heads[1].extruders[SlotOf(t)], PartOf(t))

\* C6: a hotend or active-material hook that meets a missing step of its
\* traversal raises nothing and leaves the value null.
C6_MissingStepYieldsNull ==
    \A h \in Holders :
        (type[h] \in ExtruderKinds /\ ReadCurrent(h) /\ MissingStep(data, type[h]))
        => (raised[h] = "none" /\ state[h] = None)

\* The material of slot N in snapshot d carries a GUID the catalog lacks
UnknownGuid(d, t) ==
    /\ ~MissingStep(d, t)
    /\ Has(d.heads[1].extruders[SlotOf(t)].active_material, "guid")
    /\ \A i \in DOMAIN MATERIAL_LIST :
           StrV(MATERIAL_LIST[i].guid)
               # d.heads[1].extruders[SlotOf(t)].active_material.guid

\* C7: the hook of active_material_N_guid, on a GUID the catalog lacks,
\* raises nothing and leaves a string sentinel as the value.
C7_UnknownGuidYieldsSentinel ==
    \A h \in Holders :
        (/\ type[h] \in {"active_material_1_guid", "active_material_2_guid"}
         /\ ReadCurrent(h)
         /\ UnknownGuid(data, type[h]))
        => (raised[h] = "none" /\ state[h].k = "str")

\* C8: after a bed hook has read a snapshot without the bed key, the value
\* is null and nothing was raised, whatever the holder held before.
C8_NoBedYieldsNull ==
    \A h \in Holders :
        (Contains(type[h], "bed") /\ ReadCurrent(h) /\ ~Has(data, "bed"))
        => (raised[h] = "none" /\ state[h] = None)

\* C9: with the placeholder current, a refresh invoked more than the
\* minimum interval after the last attempt starts a new cycle; when all
\* three endpoints answer it, the merged snapshot replaces the placeholder
\* and the status kind reads the printer's status.
C9_RetryAfterFallback ==
    [][\A h \in Holders :
         /\ (/\ HolderUpdate(h)
             /\ IsDict(data) /\ ~origin.ok
             /\ now - throttle.last > MIN_TIME_BETWEEN_UPDATES)
            => (/\ pc'[h] = At("get", 1)
                /\ reqStart'[h] = now
                /\ throttle' = [called |-> TRUE, last |-> now])
         /\ (/\ JsonParsed(h)
             /\ pc[h].ep = 3
             /\ IsDict(data) /\ ~origin.ok
             /\ locals[h].printer_data = world.printer
             /\ locals[h].print_job_data = world.print_job)
            => (/\ origin'.ok
                /\ DOMAIN data' = DOMAIN world.printer \cup DOMAIN world.print_job
                                  \cup DOMAIN world.system \cup {"sampleTime"}
                /\ data'.status = world.printer.status
                /\ data'.sampleTime = TimeV(now)
                /\ type[h] = "status" => state'[h] = world.printer.status)]_vars

\* The status holder, having read the placeholder, has just passed the
\* throttle again and awaits the printer endpoint.
C9_Witness ==
    \E h \in Holders :
        /\ type[h] = "status"
        /\ state[h] = StrV("not connected")
        /\ IsDict(data) /\ ~origin.ok
        /\ pc[h] = At("get", 1)
        /\ throttle.last = now /\ now > origin.at + MIN_TIME_BETWEEN_UPDATES

\* C10: whenever a caller is suspended or idle, latest_data is one whole
\* published snapshot: the stamped merge of the bodies one cycle fetched,
\* or the stamped placeholder, with every value as it was fetched; holders
\* never see None, and no hook alters the snapshot.
C10_SnapshotWhole ==
    /\ IsValue(data) => pc[Setup].op # "done"
    /\ IsDict(data) =>
        /\ Has(data, "sampleTime")
        /\ data.sampleTime = TimeV(origin.at)
        /\ IF origin.ok
           THEN /\ DOMAIN data \ {"sampleTime"} = PayloadKeys(origin)
                /\ \A key \in PayloadKeys(origin) :
                       \E e \in DOMAIN Endpoints :
                           /\ Has(origin[Endpoints[e]], key)
                           /\ data[key] = origin[Endpoints[e]][key]
           ELSE /\ DOMAIN data = {"status", "sampleTime"}
                /\ data.status = StrV("not connected")

\* One holder awaits the body of the system endpoint while the progress
\* holder has scaled the progress it read from the snapshot still current.
C10_Witness ==
    \E c \in Holders, h \in Holders :
        /\ c # h
        /\ pc[c] = At("json", 3)
        /\ type[h] = "progress"
        /\ ReadCurrent(h)
        /\ origin.ok
        /\ Has(data, "progress")
        /\ data.progress = FloatV(370)
        /\ state[h] = FloatV(37000)

\* C11: after any number of hooks of a progress holder, its value is 100
\* times the progress of the snapshot it read, and 0 when the snapshot has
\* no progress; hooks repeated on one snapshot do not compound the scaling.
C11_ProgressScaledOnce ==
    \A h \in Holders :
        (type[h] = "progress" /\ ReadCurrent(h)) =>
            /\ raised[h] = "none"
            /\ IF Has(data, "progress")
               THEN /\ state[h].k = data.progress.k
                    /\ state[h].v = 100 * data.progress.v
               ELSE state[h] = IntV(0)

\* The progress holder holds 37.0 for the progress 0.37 of a snapshot that
\* it fetched itself and that has since stayed current under the throttle.
C11_Witness ==
    \E h \in Holders :
        /\ type[h] = "progress"
        /\ ReadCurrent(h)
        /\ Has(data, "progress") /\ data.progress = FloatV(370)
        /\ state[h] = FloatV(37000)
        /\ pc[h].op = "idle"
        /\ origin.at > 0 /\ now > origin.at

\* C12: a read of a holder's value leaves the stored value as it is, however
\* often it is read; what the read returned is the stored number rounded to
\* the configured number of decimals (a multiple of that unit, at most half
\* a unit away), or the stored string or null itself; and a read repeated
\* before the next hook returns what the read before it returned.
C12_ReadRoundsResultOnly ==
    /\ [](\A h \in Holders :
            shown[h] # Unread =>
                IF state[h].k = "float"
                THEN /\ shown[h].k = "float"
                     /\ shown[h].v % Pow10(3 - decimal) = 0
                     /\ 2 * (shown[h].v - state[h].v) <= Pow10(3 - decimal)
                     /\ 2 * (state[h].v - shown[h].v) <= Pow10(3 - decimal)
                ELSE shown[h] = state[h])
    /\ [][\A h \in Holders :
            ReadState(h) =>
                /\ state' = state
                /\ shown[h] # Unread => shown'[h] = shown[h]]_vars

\* The holder of the second hotend's temperature holds 23.456 after a read
\* at one decimal returned 23.5
C12_Witness ==
    \E h \in Holders :
        /\ type[h] = "hotend_2_temperature"
        /\ decimal = 1
        /\ state[h] = FloatV(23456)
        /\ shown[h] = FloatV(23500)

\* C13: the snapshot is never replaced by the result of a refresh cycle that
\* started earlier than the cycle that produced the snapshot it replaces.
C13_PublishedInStartOrder == [][origin'.started >= origin.started]_vars

====
